---- MODULE Spec2Model ----
(***************************************************************************)
(* Enrollment / progress synchronisation layer of next-wp.                 *)
(*                                                                         *)
(*   Local Progress Store : lib/tutor-enrollment.ts (three collections in  *)
(*                          localStorage, each a JSON list of records)     *)
(*   Sync Coordinator     : lib/tutor-enrollment-sync.ts                   *)
(*                          (class TutorEnrollmentSync)                    *)
(*                                                                         *)
(* Conventions                                                             *)
(*   - an optional value (a field that may be undefined, a nullable        *)
(*     result) is a sequence of length 0 (absent) or 1 (present);          *)
(*   - userId = NoUser stands for an undefined user id; every test the     *)
(*     code makes on a user id is `!userId`, which also holds of 0;        *)
(*   - timestamps are left out, except LessonProgress.completedAt, which   *)
(*     is kept as "is it set";                                             *)
(*   - a remote call is an await: the coordinator methods are split at     *)
(*     their await into a call step and a return step, and other handlers  *)
(*     may run in between.                                                 *)
(***************************************************************************)
EXTENDS Integers, Sequences, FiniteSets, TLC

\* ------------------------------------------------------------------ bounds
MaxCourse == 1
MaxLesson == 2
MaxUser == 1
MaxTasks == 2
MaxEntries == 2
MaxTries == 2
MaxReads == 1
MaxCatalog == 2
MaxCaller == 2

NoUser == 0
Courses == 1..MaxCourse
Lessons == 1..MaxLesson
UserIds == 1..MaxUser
OptUserIds == {NoUser} \cup UserIds

\* ------------------------------------------------------- optional values
None == <<>>
Some(v) == <<v>>
Opt(S) == {None} \cup {Some(v) : v \in S}
IsSome(o) == Len(o) = 1
Get(o) == o[1]

\* a || b on optional numbers: 0 and undefined are falsy
TruthyNum(o) == IsSome(o) /\ Get(o) # 0
\* a || b on optional arrays: every array, the empty one included, is truthy
TruthyList(o) == IsSome(o)

\* a matching in which a device-scoped record answers every query
MatchesCourseOrDevice(p, courseId, uid) ==
    p.courseId = courseId /\ (uid = NoUser \/ p.userId = uid \/ p.userId = NoUser)

\* p.courseId === courseId && (!userId || p.userId === userId)
MatchesCourse(p, courseId, uid) ==
    p.courseId = courseId /\ (uid = NoUser \/ p.userId = uid)

\* p.lessonId === lessonId && p.courseId === courseId && (!userId || p.userId === userId)
MatchesLesson(p, lessonId, courseId, uid) ==
    p.lessonId = lessonId /\ p.courseId = courseId /\ (uid = NoUser \/ p.userId = uid)

Includes(s, x) == \E i \in 1..Len(s) : s[i] = x

\* Math.round(x / y * 100) for naturals x, y with y > 0: round half up
RoundPercent(x, y) == (200 * x + y) \div (2 * y)

Min(a, b) == IF a < b THEN a ELSE b
Max(a, b) == IF a > b THEN a ELSE b

VARIABLES
    enrollments,     \* localStorage tutor_enrollments
    courseProgress,  \* localStorage tutor_course_progress
    lessonProgress,  \* localStorage tutor_lesson_progress
    malformed,       \* tutor_enrollments holds JSON that is not a list
    globalSyncManager, \* the coordinator is registered as globalSyncManager
    apiClient,       \* TutorEnrollmentSync.apiClient is non-null
    userId,          \* TutorEnrollmentSync.userId
    isOnline,        \* TutorEnrollmentSync.isOnline
    syncQueue,       \* TutorEnrollmentSync.syncQueue
    tasks,           \* coordinator calls suspended at an await
    nextId,          \* number of closures created so far
    last             \* the operation that ran last, with what it returned

vars == <<enrollments, courseProgress, lessonProgress, malformed,
          globalSyncManager, apiClient, userId, isOnline, syncQueue, tasks,
          nextId, last>>

storeVars == <<enrollments, courseProgress, lessonProgress, malformed>>
syncVars == <<globalSyncManager, apiClient, userId, isOnline, syncQueue, tasks, nextId>>

\* ===================================================== Local Progress Store

\* enrollments.some(e => e.courseId === courseId && (!userId || e.userId === userId))
isEnrolledInCourse(enr, courseId, uid) ==
    \E i \in 1..Len(enr) : MatchesCourse(enr[i], courseId, uid)

\* progressData.findIndex(...) : 0 stands for -1
CourseProgressIndex(cp, courseId, uid) ==
    IF \E i \in 1..Len(cp) : MatchesCourse(cp[i], courseId, uid)
    THEN CHOOSE i \in 1..Len(cp) :
            /\ MatchesCourse(cp[i], courseId, uid)
            /\ \A j \in 1..(i - 1) : ~MatchesCourse(cp[j], courseId, uid)
    ELSE 0

\* progressData.find(...) || null
getCourseProgress(cp, courseId, uid) ==
    LET i == CourseProgressIndex(cp, courseId, uid)
    IN  IF i = 0 THEN None ELSE Some(cp[i])

NewCourseProgress(courseId, uid) ==
    [courseId |-> courseId, userId |-> uid,
     completedLessons |-> <<>>, completedQuizzes |-> <<>>,
     completedAssignments |-> <<>>, overallProgress |-> 0]

\* an enrollment that leaves the progress collection alone
initializeCourseProgressSkipped(cp, courseId, uid) == cp

initializeCourseProgress(cp, courseId, uid) ==
    IF CourseProgressIndex(cp, courseId, uid) = 0
    THEN Append(cp, NewCourseProgress(courseId, uid))
    ELSE cp

\* { ...progressData[index], ...updates }: a field of the patch that is
\* present replaces the stored one
ApplyCoursePatch(p, updates) ==
    [courseId |-> IF IsSome(updates.courseId) THEN Get(updates.courseId) ELSE p.courseId,
     userId |-> IF IsSome(updates.userId) THEN Get(updates.userId) ELSE p.userId,
     completedLessons |->
        IF IsSome(updates.completedLessons) THEN Get(updates.completedLessons)
        ELSE p.completedLessons,
     completedQuizzes |->
        IF IsSome(updates.completedQuizzes) THEN Get(updates.completedQuizzes)
        ELSE p.completedQuizzes,
     completedAssignments |->
        IF IsSome(updates.completedAssignments) THEN Get(updates.completedAssignments)
        ELSE p.completedAssignments,
     overallProgress |->
        IF IsSome(updates.overallProgress) THEN Get(updates.overallProgress)
        ELSE p.overallProgress]

updateCourseProgress(cp, courseId, updates, uid) ==
    LET index == CourseProgressIndex(cp, courseId, uid)
    IN  IF index # 0
        THEN [cp EXCEPT ![index] = ApplyCoursePatch(cp[index], updates)]
        ELSE cp

\* an unenroll that keeps the progress records
removeCourseProgressKept(cp, courseId, uid) == cp

removeCourseProgress(cp, courseId, uid) ==
    SelectSeq(cp, LAMBDA p : ~MatchesCourse(p, courseId, uid))

MinimumEstimate == 10

calculateOverallProgress(cp, courseId, uid) ==
    LET found == getCourseProgress(cp, courseId, uid)
    IN  IF ~IsSome(found) THEN 0
        ELSE LET p == Get(found)
                 totalCompleted == Len(p.completedLessons) + Len(p.completedQuizzes)
                                   + Len(p.completedAssignments)
                 estimatedTotal == Max(totalCompleted, MinimumEstimate)
             IN  Min(RoundPercent(totalCompleted, estimatedTotal), 100)

\* enrollInFreeCourse without its "already enrolled" check
enrollInFreeCourseUnchecked(enr, cp, courseId, uid) ==
    [enrollments |-> Append(enr, [courseId |-> courseId, userId |-> uid]),
     courseProgress |-> initializeCourseProgress(cp, courseId, uid),
     result |-> TRUE]

\* the two collections enrollInFreeCourse writes, and what it resolves to
enrollInFreeCourse(enr, cp, courseId, uid) ==
    IF isEnrolledInCourse(enr, courseId, uid)
    THEN [enrollments |-> enr, courseProgress |-> cp, result |-> TRUE]
    ELSE [enrollments |-> Append(enr, [courseId |-> courseId, userId |-> uid]),
          courseProgress |-> initializeCourseProgress(cp, courseId, uid),
          result |-> TRUE]

unenrollFromCourse(enr, cp, courseId, uid) ==
    [enrollments |-> SelectSeq(enr, LAMBDA e : ~MatchesCourse(e, courseId, uid)),
     courseProgress |-> removeCourseProgress(cp, courseId, uid),
     result |-> TRUE]

\* the try / catch of enrollInFreeCourse: on a stored value that is not a list
\* enrollments.some(...) throws before anything is written, and the promise
\* resolves to false
TryEnroll(bad, enr, cp, courseId, uid) ==
    IF bad
    THEN [enrollments |-> enr, courseProgress |-> cp, result |-> FALSE]
    ELSE enrollInFreeCourse(enr, cp, courseId, uid)

\* the try / catch of unenrollFromCourse: enrollments.filter(...) throws
TryUnenroll(bad, enr, cp, courseId, uid) ==
    IF bad
    THEN [enrollments |-> enr, courseProgress |-> cp, result |-> FALSE]
    ELSE unenrollFromCourse(enr, cp, courseId, uid)

LessonProgressIndex(lp, lessonId, courseId, uid) ==
    IF \E i \in 1..Len(lp) : MatchesLesson(lp[i], lessonId, courseId, uid)
    THEN CHOOSE i \in 1..Len(lp) :
            /\ MatchesLesson(lp[i], lessonId, courseId, uid)
            /\ \A j \in 1..(i - 1) : ~MatchesLesson(lp[j], lessonId, courseId, uid)
    ELSE 0

getLessonProgress(lp, lessonId, courseId, uid) ==
    LET i == LessonProgressIndex(lp, lessonId, courseId, uid)
    IN  IF i = 0 THEN None ELSE Some(lp[i])

\* progress?.isCompleted || false
isLessonCompleted(lp, lessonId, courseId, uid) ==
    LET progress == getLessonProgress(lp, lessonId, courseId, uid)
    IN  IsSome(progress) /\ Get(progress).isCompleted

\* the patch spread over the defaults instead of over the stored record: a
\* flag the patch does not name falls back to false
ApplyLessonPatchOverDefaults(p, updates) ==
    [lessonId |-> p.lessonId, courseId |-> p.courseId, userId |-> p.userId,
     isCompleted |-> IF IsSome(updates.isCompleted) THEN Get(updates.isCompleted) ELSE FALSE,
     progressPercentage |->
        IF IsSome(updates.progressPercentage) THEN Get(updates.progressPercentage)
        ELSE p.progressPercentage,
     completedAt |->
        IF IsSome(updates.completedAt) THEN Get(updates.completedAt) ELSE p.completedAt]

\* { ...lessonProgressData[i], ...updates }
ApplyLessonPatch(p, updates) ==
    [lessonId |-> p.lessonId, courseId |-> p.courseId, userId |-> p.userId,
     isCompleted |->
        IF IsSome(updates.isCompleted) THEN Get(updates.isCompleted) ELSE p.isCompleted,
     progressPercentage |->
        IF IsSome(updates.progressPercentage) THEN Get(updates.progressPercentage)
        ELSE p.progressPercentage,
     completedAt |->
        IF IsSome(updates.completedAt) THEN Get(updates.completedAt) ELSE p.completedAt]

CompletedPatch ==
    [isCompleted |-> Some(TRUE), progressPercentage |-> Some(100),
     completedAt |-> Some(TRUE)]

NewLessonProgress(lessonId, courseId, uid) ==
    [lessonId |-> lessonId, courseId |-> courseId, userId |-> uid,
     isCompleted |-> FALSE, progressPercentage |-> 0, completedAt |-> FALSE]

\* lines 618-646: the lesson-progress half of markLessonCompleted
MarkLessonRecord(lp, lessonId, courseId, uid) ==
    LET existingIndex == LessonProgressIndex(lp, lessonId, courseId, uid)
    IN  IF existingIndex # 0
        THEN [lp EXCEPT ![existingIndex] = ApplyLessonPatch(lp[existingIndex], CompletedPatch)]
        ELSE Append(lp, ApplyLessonPatch(NewLessonProgress(lessonId, courseId, uid),
                                         CompletedPatch))

NoCoursePatch ==
    [courseId |-> None, userId |-> None, completedLessons |-> None,
     completedQuizzes |-> None, completedAssignments |-> None,
     overallProgress |-> None]

\* lines 648-660: the course-progress half of markLessonCompleted.
\* calculateOverallProgress reads the stored record, which does not hold
\* lessonId yet: it is evaluated as an argument of updateCourseProgress.
MarkCourseRecord(cp, lessonId, courseId, uid) ==
    LET found == getCourseProgress(cp, courseId, uid)
    IN  IF IsSome(found)
        THEN LET old == Get(found).completedLessons
                 completedLessons == IF Includes(old, lessonId) THEN old
                                     ELSE Append(old, lessonId)
             IN  updateCourseProgress(cp, courseId,
                    [NoCoursePatch EXCEPT
                        !.completedLessons = Some(completedLessons),
                        !.overallProgress =
                            Some(calculateOverallProgress(cp, courseId, uid))],
                    uid)
        ELSE cp

markLessonCompleted(lp, cp, lessonId, courseId, uid) ==
    [lessonProgress |-> MarkLessonRecord(lp, lessonId, courseId, uid),
     courseProgress |-> MarkCourseRecord(cp, lessonId, courseId, uid)]

updateLessonProgress(lp, lessonId, courseId, updates, uid) ==
    LET existingIndex == LessonProgressIndex(lp, lessonId, courseId, uid)
    IN  IF existingIndex # 0
        THEN [lp EXCEPT ![existingIndex] = ApplyLessonPatch(lp[existingIndex], updates)]
        ELSE Append(lp, ApplyLessonPatch(NewLessonProgress(lessonId, courseId, uid), updates))


\* ----------------------------------------------------------------- inputs
\* Partial<CourseProgress> as a direct caller passes it
CoursePatches ==
    {[NoCoursePatch EXCEPT !.completedQuizzes = Some(q)] : q \in {<<>>, <<1>>}}
    \cup {[NoCoursePatch EXCEPT !.overallProgress = Some(v)] : v \in {0, 100}}

\* Partial<LessonProgress>: time spent, playback position and percentage
\* updates of the player, with or without the completed flag
LessonPatches ==
    [isCompleted : Opt(BOOLEAN), progressPercentage : Opt({50}), completedAt : {None}]

\* a closure of the retry queue: the remote write it repeats and its captured
\* arguments; id, origin (the branch that created it) and tries (how often it
\* has been invoked, counted up to MaxTries) are bookkeeping of the model
NoEntry ==
    [op |-> "none", courseId |-> 0, lessonId |-> 0, id |-> 0, origin |-> "none",
     tries |-> 0]

\* size (the length of a drain's snapshot) is bookkeeping of the model;
\* synced is result.synced.enrollments of a suspended syncFromServer
NoTask ==
    [kind |-> "idle", courseId |-> 0, lessonId |-> 0, local |-> None,
     cur |-> NoEntry, rest |-> <<>>, failed |-> <<>>, solo |-> TRUE,
     caller |-> "none", size |-> 0, synced |-> 0]


\* the coordinator method that returned last: what it returned and, for
\* getCourseProgress, the local record it had read before its await
\* raised: the method rejected instead of returning; remote: how the remote
\* call it awaited settled ("none" when it made no remote call)
Observed(op, ret, local) ==
    [op |-> op, ret |-> ret, local |-> local, raised |-> FALSE, remote |-> "none"]
Returned(op, ret) == Observed(op, ret, None)

\* an await outside every try block: a rejection of the awaited call
\* rejects the method
PropagatesUncaught(outcome) == outcome = "throw"

\* every await of a remote call stands inside try { } catch { }: the
\* rejection is handled and the method goes on to its return
Propagates(outcome) == FALSE

\* the method resumes after an awaited remote call and ends with result
AfterAwait(outcome, result) ==
    [result EXCEPT !.raised = Propagates(outcome),
                   !.remote = IF outcome = "ok" THEN "ok" ELSE "failed"]

\* a statement outside every try block throws
Thrown(op) == [Returned(op, FALSE) EXCEPT !.raised = TRUE]

\* ============================================= direct calls of the store
StoreEnroll(c, u) ==
    LET r == TryEnroll(malformed, enrollments, courseProgress, c, u)
    IN  /\ enrollments' = r.enrollments
        /\ courseProgress' = r.courseProgress
        /\ UNCHANGED <<lessonProgress, malformed, syncVars, last>>

StoreUnenroll(c, u) ==
    LET r == TryUnenroll(malformed, enrollments, courseProgress, c, u)
    IN  /\ enrollments' = r.enrollments
        /\ courseProgress' = r.courseProgress
        /\ UNCHANGED <<lessonProgress, malformed, syncVars, last>>

StoreMarkLessonCompleted(l, c, u) ==
    LET r == markLessonCompleted(lessonProgress, courseProgress, l, c, u)
    IN  /\ lessonProgress' = r.lessonProgress
        /\ courseProgress' = r.courseProgress
        /\ UNCHANGED <<enrollments, malformed, syncVars, last>>

StoreUpdateCourseProgress(c, updates, u) ==
    /\ courseProgress' = updateCourseProgress(courseProgress, c, updates, u)
    /\ UNCHANGED <<enrollments, lessonProgress, malformed, syncVars, last>>

StoreUpdateLessonProgress(l, c, updates, u) ==
    /\ lessonProgress' = updateLessonProgress(lessonProgress, l, c, updates, u)
    /\ UNCHANGED <<enrollments, courseProgress, malformed, syncVars, last>>

\* isEnrolledInCourse called by a page: getStorageData hands on whatever
\* JSON.parse returned, and enrollments.some(...) stands in no try block
StoreIsEnrolled(c, u) ==
    /\ last' = IF malformed
               THEN Thrown("isEnrolled")
               ELSE Observed("isEnrolled", isEnrolledInCourse(enrollments, c, u),
                             Some([courseId |-> c, userId |-> u]))
    /\ UNCHANGED <<storeVars, syncVars>>

\* localStorage starts empty; no coordinator has been constructed
InitStore ==
    /\ enrollments = <<>>
    /\ courseProgress = <<>>
    /\ lessonProgress = <<>>
    /\ malformed = FALSE
    /\ globalSyncManager = FALSE
    /\ apiClient = FALSE
    /\ userId = NoUser
    /\ isOnline = TRUE
    /\ syncQueue = <<>>
    /\ tasks = [t \in 1..MaxTasks |-> NoTask]
    /\ nextId = 0
    /\ last = Returned("init", TRUE)

\* enrollment and course progress through the store's own functions
NextStore ==
    \/ \E c \in Courses, u \in OptUserIds : StoreEnroll(c, u)
    \/ \E c \in Courses, u \in OptUserIds : StoreUnenroll(c, u)
    \/ \E l \in Lessons, c \in Courses, u \in OptUserIds : StoreMarkLessonCompleted(l, c, u)
    \/ \E c \in Courses, p \in CoursePatches, u \in OptUserIds :
          StoreUpdateCourseProgress(c, p, u)

SpecStore == InitStore /\ [][NextStore]_vars

\* lesson progress through the store's own functions
NextLesson ==
    \/ \E l \in Lessons, c \in Courses, u \in OptUserIds : StoreMarkLessonCompleted(l, c, u)
    \/ \E l \in Lessons, c \in Courses, p \in LessonPatches, u \in OptUserIds :
          StoreUpdateLessonProgress(l, c, p, u)

SpecLesson == InitStore /\ [][NextLesson]_vars

\* the patches of the local runs: a caller that sets the overall progress,
\* and the player reporting a position in a lesson that is not completed
LocalCoursePatches == {p \in CoursePatches : p.overallProgress = Some(100)}
LocalLessonPatches ==
    {p \in LessonPatches :
        p.isCompleted = Some(FALSE) /\ p.progressPercentage = Some(50)}

\* the five writing functions of the store, for every course, lesson and
\* user id, the absent one included
NextLocal ==
    \/ \E c \in Courses, u \in OptUserIds : StoreEnroll(c, u)
    \/ \E c \in Courses, u \in OptUserIds : StoreUnenroll(c, u)
    \/ \E l \in Lessons, c \in Courses, u \in OptUserIds : StoreMarkLessonCompleted(l, c, u)
    \/ \E c \in Courses, p \in LocalCoursePatches, u \in OptUserIds :
          StoreUpdateCourseProgress(c, p, u)
    \/ \E l \in Lessons, c \in Courses, p \in LocalLessonPatches, u \in OptUserIds :
          StoreUpdateLessonProgress(l, c, p, u)

SpecLocal == InitStore /\ [][NextLocal]_vars

\* a catalog of several courses; the lesson player reports the first lesson
CatalogCourses == 1..MaxCatalog
CatalogLessons == {1}

\* enrolling in and leaving the courses of the catalog
NextCatalog ==
    \/ \E c \in CatalogCourses, u \in OptUserIds : StoreEnroll(c, u)
    \/ \E c \in CatalogCourses, u \in OptUserIds : StoreUnenroll(c, u)
    \/ \E l \in CatalogLessons, c \in CatalogCourses, u \in OptUserIds :
          StoreMarkLessonCompleted(l, c, u)

SpecCatalog == InitStore /\ [][NextCatalog]_vars

\* pages asking whether a course of the catalog is enrolled, between
\* enrollments and unenrollments
NextAsk ==
    \/ \E c \in CatalogCourses, u \in OptUserIds : StoreIsEnrolled(c, u)
    \/ \E c \in CatalogCourses, u \in OptUserIds : StoreEnroll(c, u)
    \/ \E c \in CatalogCourses, u \in OptUserIds : StoreUnenroll(c, u)

SpecAsk == InitStore /\ [][NextAsk]_vars

\* a browser whose tutor_enrollments key holds a list (the empty one) or
\* JSON that is not a list, such as {} or null or a number; the other two
\* keys hold lists
InitFault ==
    /\ enrollments = <<>>
    /\ courseProgress = <<>>
    /\ lessonProgress = <<>>
    /\ malformed \in BOOLEAN
    /\ globalSyncManager = FALSE
    /\ apiClient = FALSE
    /\ userId = NoUser
    /\ isOnline = TRUE
    /\ syncQueue = <<>>
    /\ tasks = [t \in 1..MaxTasks |-> NoTask]
    /\ nextId = 0
    /\ last = Returned("init", TRUE)

\* the store's functions on such a browser
NextFault ==
    \/ \E c \in Courses, u \in OptUserIds : StoreIsEnrolled(c, u)
    \/ \E c \in Courses, u \in OptUserIds : StoreEnroll(c, u)
    \/ \E c \in Courses, u \in OptUserIds : StoreUnenroll(c, u)
    \/ \E l \in Lessons, c \in Courses, u \in OptUserIds : StoreMarkLessonCompleted(l, c, u)

SpecFault == InitFault /\ [][NextFault]_vars


\* ========================================================= Sync Coordinator

\* how an awaited remote call settles: a successful envelope, an envelope
\* with success = false (makeRequest turns every transport error into one),
\* or a rejection, which the coordinator's catch blocks provide for
RemoteOutcomes == {"ok", "fail", "throw"}

\* the fields the merge reads from the body of a successful response.  The
\* three lists go through the same expression; the responses vary the lessons.
ServerProgress ==
    [completedLessons : Opt({<<>>, <<2>>}),
     completedQuizzes : {None},
     completedAssignments : {None},
     overallProgress : Opt({0, 40, 150})]

\* a settled remote getCourseProgress: an envelope without data, or with it
ProgressResponses ==
    [outcome : {"fail", "throw"}, data : {None}]
    \cup [outcome : {"ok"}, data : Opt(ServerProgress)]

\* a test that forgets connectivity
RemoteCapableOffline == apiClient /\ userId # NoUser

\* this.isOnline && this.apiClient && this.userId
RemoteCapable == isOnline /\ apiClient /\ userId # NoUser

IdleSlots == {t \in 1..MaxTasks : tasks[t].kind = "idle"}
FreeSlot == CHOOSE t \in IdleSlots : \A o \in IdleSlots : t <= o

\* suspended enrollInFreeCourse and markLessonCompleted calls: each may
\* still create a closure
Writers == {t \in 1..MaxTasks : tasks[t].kind \in {"enroll", "mark"}}
MayCreateEntry == nextId + Cardinality(Writers) < MaxEntries

\* suspended getCourseProgress calls
Readers == {t \in 1..MaxTasks : tasks[t].kind = "getCourseProgress"}

\* the closure passed to addToSyncQueue
NewEntry(op, c, l, origin) ==
    [op |-> op, courseId |-> c, lessonId |-> l, id |-> nextId + 1, origin |-> origin,
     tries |-> 0]

\* a queue that refuses a closure repeating a write it already holds
addToSyncQueueOnce(queue, operation) ==
    IF \E i \in 1..Len(queue) :
            /\ queue[i].op = operation.op
            /\ queue[i].courseId = operation.courseId
            /\ queue[i].lessonId = operation.lessonId
    THEN queue
    ELSE Append(queue, operation)

addToSyncQueue(queue, operation) == Append(queue, operation)

\* operation() is invoked: the closure calls the remote client
Invoked(e) == [e EXCEPT !.tries = Min(e.tries + 1, MaxTries)]

\* processSyncQueue without `this.syncQueue = []`
BeginDrainKeepingQueue(queue, caller) ==
    /\ syncQueue' = queue
    /\ tasks' = [t \in 1..MaxTasks |->
                    IF t = FreeSlot
                    THEN [NoTask EXCEPT !.kind = "drain", !.cur = Invoked(Head(queue)),
                                        !.rest = Tail(queue), !.caller = caller,
                                        !.size = Len(queue)]
                    ELSE IF tasks[t].kind = "drain"
                         THEN [tasks[t] EXCEPT !.solo = FALSE]
                         ELSE tasks[t]]

\* processSyncQueue up to its first await.  queue is the live queue when
\* the drain starts; the running drains learn that they are no longer alone
BeginDrain(queue, caller) ==
    /\ syncQueue' = <<>>
    /\ tasks' = [t \in 1..MaxTasks |->
                    IF t = FreeSlot
                    THEN [NoTask EXCEPT !.kind = "drain", !.cur = Invoked(Head(queue)),
                                        !.rest = Tail(queue), !.caller = caller,
                                        !.size = Len(queue)]
                    ELSE IF tasks[t].kind = "drain"
                         THEN [tasks[t] EXCEPT !.solo = FALSE]
                         ELSE tasks[t]]

\* SyncResult: error stands for "an error message is given"
SyncReport(success, nEnrollments, nProgress) ==
    [success |-> success, error |-> ~success,
     synced |-> [enrollments |-> nEnrollments, progress |-> nProgress, lessons |-> 0]]

SyncResult(success, n) == SyncReport(success, n, 0)

\* window 'online' listener: this.isOnline = true; this.processSyncQueue().
\* The browser fires it on a transition from offline.
OnlineEvent ==
    /\ ~isOnline
    /\ isOnline' = TRUE
    /\ IF apiClient /\ syncQueue # <<>>
       THEN /\ IdleSlots # {}
            /\ BeginDrain(syncQueue, "event")
       ELSE /\ syncQueue' = IF apiClient THEN <<>> ELSE syncQueue
            /\ UNCHANGED tasks
    /\ UNCHANGED <<storeVars, globalSyncManager, apiClient, userId, nextId, last>>

\* window 'offline' listener
OfflineEvent ==
    /\ isOnline
    /\ isOnline' = FALSE
    /\ UNCHANGED <<storeVars, globalSyncManager, apiClient, userId, syncQueue, tasks, nextId, last>>

\* syncToServer up to its first await
SyncToServer ==
    /\ IF ~RemoteCapable
       THEN /\ last' = Returned("syncToServer", SyncResult(FALSE, 0))
            /\ UNCHANGED <<syncQueue, tasks>>
       ELSE IF syncQueue # <<>>
            THEN /\ IdleSlots # {}
                 /\ BeginDrain(syncQueue, "syncToServer")
                 /\ UNCHANGED last
            ELSE /\ syncQueue' = <<>>
                 /\ last' = Returned("syncToServer", SyncResult(TRUE, 0))
                 /\ UNCHANGED tasks
    /\ UNCHANGED <<storeVars, globalSyncManager, apiClient, userId, isOnline, nextId>>

\* a catch block that only logs
CatchBlockLogOnly(queue, outcome, operation) == queue

\* a catch block that pushes the failed closure twice
CatchBlockTwice(queue, outcome, operation) ==
    IF outcome = "throw" THEN Append(Append(queue, operation), operation) ELSE queue

\* lines 100-106: the closure awaits the remote call and drops its result,
\* so only a rejection reaches the catch block, which re-queues the closure
CatchBlock(queue, outcome, operation) ==
    IF outcome = "throw" THEN Append(queue, operation) ELSE queue

\* a loop that a failing operation ends
RemainingUntilFailure(rest, outcome) == IF outcome = "throw" THEN <<>> ELSE rest

\* for (const operation of queue): the try / catch stands inside the loop
\* body, so the loop goes on to the next captured operation however the
\* awaited one settled
Remaining(rest, outcome) == rest

\* the awaited operation of drain t settles; the loop then invokes the next
\* captured operation or ends
DrainResume(t, outcome) ==
    /\ tasks[t].kind = "drain"
    /\ LET d == tasks[t]
           queue == CatchBlock(syncQueue, outcome, d.cur)
           failed == IF outcome = "throw" THEN Append(d.failed, d.cur.id) ELSE d.failed
           rest == Remaining(d.rest, outcome)
       IN  /\ syncQueue' = queue
           /\ IF rest # <<>>
              THEN /\ tasks' = [tasks EXCEPT ![t] =
                                  [d EXCEPT !.cur = Invoked(Head(rest)),
                                            !.rest = Tail(rest),
                                            !.failed = failed]]
                   /\ UNCHANGED last
              ELSE /\ tasks' = [tasks EXCEPT ![t] = NoTask]
                   /\ last' = IF d.caller = "syncToServer"
                              THEN Returned("syncToServer", SyncResult(TRUE, Len(queue)))
                              ELSE last
    /\ UNCHANGED <<storeVars, globalSyncManager, apiClient, userId, isOnline, nextId>>

\* a coordinator that goes on whatever the local step resolved to
NeverFailsFast(localSuccess) == FALSE

\* lines 141-143: if (!localSuccess) return false
FailsFast(localSuccess) == ~localSuccess

\* enrollInFreeCourse up to its await, or to its end when it does not call
\* the remote client
EnrollInFreeCourse(c) ==
    /\ MayCreateEntry
    /\ LET r == TryEnroll(malformed, enrollments, courseProgress, c, userId)
       IN  /\ enrollments' = r.enrollments
           /\ courseProgress' = r.courseProgress
           /\ IF FailsFast(r.result)
              THEN /\ last' = Returned("enrollInFreeCourse", FALSE)
                   /\ UNCHANGED <<syncQueue, tasks, nextId>>
              ELSE IF RemoteCapable
                   THEN /\ IdleSlots # {}
                        /\ tasks' = [tasks EXCEPT ![FreeSlot] =
                                        [NoTask EXCEPT !.kind = "enroll", !.courseId = c]]
                        /\ UNCHANGED <<syncQueue, nextId, last>>
                   ELSE /\ syncQueue' = addToSyncQueue(syncQueue, NewEntry("enroll", c, 0, "deferred"))
                        /\ nextId' = nextId + 1
                        /\ last' = Returned("enrollInFreeCourse", TRUE)
                        /\ UNCHANGED tasks
    /\ UNCHANGED <<lessonProgress, malformed, globalSyncManager, apiClient, userId, isOnline>>

\* the remote enrollInCourse of a suspended enrollInFreeCourse settles
EnrollReturn(t, outcome) ==
    /\ tasks[t].kind = "enroll"
    /\ IF outcome = "ok"
       THEN UNCHANGED <<syncQueue, nextId>>
       ELSE /\ syncQueue' = addToSyncQueue(syncQueue, NewEntry("enroll", tasks[t].courseId, 0, "failed"))
            /\ nextId' = nextId + 1
    /\ tasks' = [tasks EXCEPT ![t] = NoTask]
    /\ last' = AfterAwait(outcome, Returned("enrollInFreeCourse", TRUE))
    /\ UNCHANGED <<storeVars, globalSyncManager, apiClient, userId, isOnline>>

\* markLessonCompleted up to its await, or to its end
MarkLessonCompleted(l, c) ==
    /\ MayCreateEntry
    /\ LET r == markLessonCompleted(lessonProgress, courseProgress, l, c, userId)
       IN  /\ lessonProgress' = r.lessonProgress
           /\ courseProgress' = r.courseProgress
    /\ IF RemoteCapable
       THEN /\ IdleSlots # {}
            /\ tasks' = [tasks EXCEPT ![FreeSlot] =
                            [NoTask EXCEPT !.kind = "mark", !.courseId = c, !.lessonId = l]]
            /\ UNCHANGED <<syncQueue, nextId, last>>
       ELSE /\ syncQueue' = addToSyncQueue(syncQueue, NewEntry("mark", c, l, "deferred"))
            /\ nextId' = nextId + 1
            /\ last' = Returned("markLessonCompleted", TRUE)
            /\ UNCHANGED tasks
    /\ UNCHANGED <<enrollments, malformed, globalSyncManager, apiClient, userId, isOnline>>

\* the remote markLessonCompleted of a suspended call settles
MarkReturn(t, outcome) ==
    /\ tasks[t].kind = "mark"
    /\ IF outcome = "ok"
       THEN UNCHANGED <<syncQueue, nextId>>
       ELSE /\ syncQueue' = addToSyncQueue(syncQueue,
                               NewEntry("mark", tasks[t].courseId, tasks[t].lessonId, "failed"))
            /\ nextId' = nextId + 1
    /\ tasks' = [tasks EXCEPT ![t] = NoTask]
    /\ last' = AfterAwait(outcome, Returned("markLessonCompleted", TRUE))
    /\ UNCHANGED <<storeVars, globalSyncManager, apiClient, userId, isOnline>>

\* the merge with an empty remote list treated as missing
MergedProgressNonEmptyOnly(c, uid, serverProgress, localProgress) ==
    [courseId |-> c,
     userId |-> uid,
     completedLessons |->
        IF TruthyList(serverProgress.completedLessons)
           /\ Get(serverProgress.completedLessons) # <<>>
        THEN Get(serverProgress.completedLessons)
        ELSE IF IsSome(localProgress) THEN Get(localProgress).completedLessons ELSE <<>>,
     completedQuizzes |->
        IF TruthyList(serverProgress.completedQuizzes)
        THEN Get(serverProgress.completedQuizzes)
        ELSE IF IsSome(localProgress) THEN Get(localProgress).completedQuizzes ELSE <<>>,
     completedAssignments |->
        IF TruthyList(serverProgress.completedAssignments)
        THEN Get(serverProgress.completedAssignments)
        ELSE IF IsSome(localProgress) THEN Get(localProgress).completedAssignments ELSE <<>>,
     overallProgress |->
        IF TruthyNum(serverProgress.overallProgress)
        THEN Get(serverProgress.overallProgress)
        ELSE IF IsSome(localProgress) THEN Get(localProgress).overallProgress ELSE 0]

\* lines 222-232: a || b || c field by field; localProgress is the record
\* read before the await
MergedProgress(c, uid, serverProgress, localProgress) ==
    [courseId |-> c,
     userId |-> uid,
     completedLessons |->
        IF TruthyList(serverProgress.completedLessons)
        THEN Get(serverProgress.completedLessons)
        ELSE IF IsSome(localProgress) THEN Get(localProgress).completedLessons ELSE <<>>,
     completedQuizzes |->
        IF TruthyList(serverProgress.completedQuizzes)
        THEN Get(serverProgress.completedQuizzes)
        ELSE IF IsSome(localProgress) THEN Get(localProgress).completedQuizzes ELSE <<>>,
     completedAssignments |->
        IF TruthyList(serverProgress.completedAssignments)
        THEN Get(serverProgress.completedAssignments)
        ELSE IF IsSome(localProgress) THEN Get(localProgress).completedAssignments ELSE <<>>,
     overallProgress |->
        IF TruthyNum(serverProgress.overallProgress)
        THEN Get(serverProgress.overallProgress)
        ELSE IF IsSome(localProgress) THEN Get(localProgress).overallProgress ELSE 0]

\* the whole merged record is the patch handed to localUpdateCourseProgress
PatchOf(p) ==
    [courseId |-> Some(p.courseId), userId |-> Some(p.userId),
     completedLessons |-> Some(p.completedLessons),
     completedQuizzes |-> Some(p.completedQuizzes),
     completedAssignments |-> Some(p.completedAssignments),
     overallProgress |-> Some(p.overallProgress)]

\* getCourseProgress up to its await, or to its end
GetCourseProgress(c) ==
    /\ LET localProgress == getCourseProgress(courseProgress, c, userId)
       IN  IF RemoteCapable
           THEN /\ IdleSlots # {}
                /\ Cardinality(Readers) < MaxReads
                /\ tasks' = [tasks EXCEPT ![FreeSlot] =
                                [NoTask EXCEPT !.kind = "getCourseProgress",
                                               !.courseId = c, !.local = localProgress]]
                /\ UNCHANGED last
           ELSE /\ last' = Observed("getCourseProgress", localProgress, localProgress)
                /\ UNCHANGED tasks
    /\ UNCHANGED <<storeVars, globalSyncManager, apiClient, userId, isOnline, syncQueue, nextId>>

\* the local record the method re-read after the await instead of the one it
\* holds
RereadFallback(localProgress, stored) == stored

\* line 243: return localProgress, the record read before the await
LocalFallback(localProgress, stored) == localProgress

\* the remote getCourseProgress of a suspended call settles
GetCourseProgressReturn(t, resp) ==
    /\ tasks[t].kind = "getCourseProgress"
    /\ IF resp.outcome = "ok" /\ IsSome(resp.data)
       THEN LET mergedProgress ==
                    MergedProgress(tasks[t].courseId, userId, Get(resp.data), tasks[t].local)
            IN  /\ courseProgress' = updateCourseProgress(courseProgress, tasks[t].courseId,
                                                         PatchOf(mergedProgress), userId)
                /\ last' = AfterAwait(resp.outcome,
                                     Observed("getCourseProgress", Some(mergedProgress),
                                              tasks[t].local))
       ELSE /\ last' = AfterAwait(resp.outcome,
                                     Observed("getCourseProgress",
                                              LocalFallback(tasks[t].local,
                                                  getCourseProgress(courseProgress,
                                                      tasks[t].courseId, userId)),
                                              tasks[t].local))
            /\ UNCHANGED courseProgress
    /\ tasks' = [tasks EXCEPT ![t] = NoTask]
    /\ UNCHANGED <<enrollments, lessonProgress, malformed, globalSyncManager, apiClient, userId,
                   isOnline, syncQueue, nextId>>

\* a settled remote isUserEnrolled: the client turns the body into a
\* boolean, false whenever the request did not succeed
EnrolledResponses ==
    [outcome : {"ok"}, data : BOOLEAN]
    \cup [outcome : {"fail", "throw"}, data : {FALSE}]

\* lengths of the lists getUserEnrollments and getUserProgress deliver
ListLengths == {0, 2}

\* a settled remote list request: data is the length of the list, if any
ListResponses ==
    [outcome : {"ok"}, data : Opt(ListLengths)]
    \cup [outcome : {"fail", "throw"}, data : {None}]

\* isEnrolledInCourse up to its await, or to its end.  The local check
\* stands outside the try block.
IsEnrolledInCourse(c) ==
    /\ IF malformed
       THEN /\ last' = Thrown("isEnrolledInCourse")
            /\ UNCHANGED tasks
       ELSE LET localResult == isEnrolledInCourse(enrollments, c, userId)
            IN  IF RemoteCapable
                THEN /\ IdleSlots # {}
                     /\ tasks' = [tasks EXCEPT ![FreeSlot] =
                                     [NoTask EXCEPT !.kind = "isEnrolledInCourse",
                                                    !.courseId = c,
                                                    !.local = Some(localResult)]]
                     /\ UNCHANGED last
                ELSE /\ last' = Observed("isEnrolledInCourse", localResult,
                                         Some(localResult))
                     /\ UNCHANGED tasks
    /\ UNCHANGED <<storeVars, globalSyncManager, apiClient, userId, isOnline, syncQueue, nextId>>

\* a coordinator that reports the server's answer without recording it
NeverEnrollsLocally(data, localResult) == FALSE

\* line 123: if (serverResult.data && !localResult)
EnrollsLocally(data, localResult) == data /\ ~localResult

\* the remote isUserEnrolled of a suspended isEnrolledInCourse settles
IsEnrolledReturn(t, resp) ==
    /\ tasks[t].kind = "isEnrolledInCourse"
    /\ LET localResult == Get(tasks[t].local)
           c == tasks[t].courseId
       IN  IF resp.outcome = "ok" /\ resp.data # localResult
           THEN /\ IF EnrollsLocally(resp.data, localResult)
                   THEN LET r == TryEnroll(malformed, enrollments, courseProgress, c, userId)
                        IN  /\ enrollments' = r.enrollments
                            /\ courseProgress' = r.courseProgress
                   ELSE UNCHANGED <<enrollments, courseProgress>>
                /\ last' = AfterAwait(resp.outcome,
                                      Observed("isEnrolledInCourse", resp.data,
                                               Some(localResult)))
           ELSE /\ last' = AfterAwait(resp.outcome,
                                      Observed("isEnrolledInCourse", localResult,
                                               Some(localResult)))
                /\ UNCHANGED <<enrollments, courseProgress>>
    /\ tasks' = [tasks EXCEPT ![t] = NoTask]
    /\ UNCHANGED <<lessonProgress, malformed, globalSyncManager, apiClient, userId, isOnline,
                   syncQueue, nextId>>

\* a syncFromServer that fetches and does not count
FetchedNothing(resp) == 0

\* lines 294-298, 302-305: if (result.success && result.data) the count is
\* result.data.length; it stays 0 otherwise
FetchedLength(resp) ==
    IF resp.outcome = "ok" /\ IsSome(resp.data) THEN Get(resp.data) ELSE 0

\* syncFromServer up to its first await, or to its end
SyncFromServer ==
    /\ IF ~RemoteCapable
       THEN /\ last' = Returned("syncFromServer", SyncReport(FALSE, 0, 0))
            /\ UNCHANGED tasks
       ELSE /\ IdleSlots # {}
            /\ tasks' = [tasks EXCEPT ![FreeSlot] =
                            [NoTask EXCEPT !.kind = "syncFromServer:enrollments"]]
            /\ UNCHANGED last
    /\ UNCHANGED <<storeVars, globalSyncManager, apiClient, userId, isOnline, syncQueue, nextId>>

\* getUserEnrollments settles: the method goes on to await getUserProgress,
\* or its catch block returns
SyncFromEnrollments(t, resp) ==
    /\ tasks[t].kind = "syncFromServer:enrollments"
    /\ IF resp.outcome = "throw"
       THEN /\ tasks' = [tasks EXCEPT ![t] = NoTask]
            /\ last' = AfterAwait(resp.outcome,
                                  Returned("syncFromServer", SyncReport(FALSE, 0, 0)))
       ELSE /\ tasks' = [tasks EXCEPT ![t] =
                            [NoTask EXCEPT
                                !.kind = "syncFromServer:progress",
                                !.synced = FetchedLength(resp)]]
            /\ UNCHANGED last
    /\ UNCHANGED <<storeVars, globalSyncManager, apiClient, userId, isOnline, syncQueue, nextId>>

\* getUserProgress settles
SyncFromProgress(t, resp) ==
    /\ tasks[t].kind = "syncFromServer:progress"
    /\ tasks' = [tasks EXCEPT ![t] = NoTask]
    /\ last' = AfterAwait(resp.outcome,
                  Returned("syncFromServer",
                     IF resp.outcome = "throw"
                     THEN SyncReport(FALSE, 0, 0)
                     ELSE SyncReport(TRUE, tasks[t].synced, FetchedLength(resp))))
    /\ UNCHANGED <<storeVars, globalSyncManager, apiClient, userId, isOnline, syncQueue, nextId>>

\* the user id a caller hands to the exported wrappers
CallerIds == {NoUser} \cup 1..MaxCaller

\* line 353: const syncManager = globalSyncManager || new TutorEnrollmentSync(...)
UsesGlobal(manager) == manager

\* enrollInFreeCourseSync(courseId, userId, credentials): the registered
\* coordinator, if there is one, enrolls for its own user id.  Otherwise a
\* coordinator made for this one call enrolls for the caller's user id; its
\* remote call and its queue are its own, and the wrapper resolves to what
\* the local step resolved to.
EnrollInFreeCourseSync(c, u) ==
    IF UsesGlobal(globalSyncManager)
    THEN EnrollInFreeCourse(c)
    ELSE LET r == TryEnroll(malformed, enrollments, courseProgress, c, u)
         IN  /\ enrollments' = r.enrollments
             /\ courseProgress' = r.courseProgress
             /\ last' = Returned("enrollInFreeCourse", r.result)
             /\ UNCHANGED <<lessonProgress, malformed, syncVars>>

\* new TutorEnrollmentSync(options) in a browser whose localStorage is empty:
\* a client iff credentials are given and offline is not forced, the user id
\* of the options, navigator.onLine
Init ==
    /\ enrollments = <<>>
    /\ courseProgress = <<>>
    /\ lessonProgress = <<>>
    /\ malformed = FALSE
    /\ globalSyncManager = TRUE
    /\ apiClient \in BOOLEAN
    /\ userId \in OptUserIds
    /\ isOnline \in BOOLEAN
    /\ syncQueue = <<>>
    /\ tasks = [t \in 1..MaxTasks |-> NoTask]
    /\ nextId = 0
    /\ last = Returned("init", TRUE)

Next ==
    \/ OnlineEvent
    \/ OfflineEvent
    \/ SyncToServer
    \/ \E t \in 1..MaxTasks, o \in RemoteOutcomes : DrainResume(t, o)
    \/ \E c \in Courses : EnrollInFreeCourse(c)
    \/ \E t \in 1..MaxTasks, o \in RemoteOutcomes : EnrollReturn(t, o)
    \/ \E l \in Lessons, c \in Courses : MarkLessonCompleted(l, c)
    \/ \E t \in 1..MaxTasks, o \in RemoteOutcomes : MarkReturn(t, o)
    \/ \E c \in Courses : GetCourseProgress(c)
    \/ \E t \in 1..MaxTasks, r \in ProgressResponses : GetCourseProgressReturn(t, r)
    \/ \E c \in Courses : IsEnrolledInCourse(c)
    \/ \E t \in 1..MaxTasks, r \in EnrolledResponses : IsEnrolledReturn(t, r)
    \/ SyncFromServer
    \/ \E t \in 1..MaxTasks, r \in ListResponses : SyncFromEnrollments(t, r)
    \/ \E t \in 1..MaxTasks, r \in ListResponses : SyncFromProgress(t, r)
    \/ NextStore
    \/ NextLesson
    \/ \E c \in Courses, u \in OptUserIds : StoreIsEnrolled(c, u)
    \/ \E c \in Courses, u \in CallerIds : EnrollInFreeCourseSync(c, u)

Spec == Init /\ [][Next]_vars

\* the retry queue: the writes that fill it and the drains that empty it
NextQueue ==
    \/ OnlineEvent
    \/ OfflineEvent
    \/ SyncToServer
    \/ \E t \in 1..MaxTasks, o \in RemoteOutcomes : DrainResume(t, o)
    \/ \E c \in Courses : EnrollInFreeCourse(c)
    \/ \E t \in 1..MaxTasks, o \in RemoteOutcomes : EnrollReturn(t, o)
    \/ \E l \in Lessons, c \in Courses : MarkLessonCompleted(l, c)
    \/ \E t \in 1..MaxTasks, o \in RemoteOutcomes : MarkReturn(t, o)

SpecQueue == Init /\ [][NextQueue]_vars

\* course progress: the store's own writes, made for the coordinator's user
\* by callers that bypass it, and the coordinator's merges
NextProgress ==
    \/ OnlineEvent
    \/ OfflineEvent
    \/ \E c \in Courses : StoreEnroll(c, userId)
    \/ \E c \in Courses : StoreUnenroll(c, userId)
    \/ \E l \in Lessons, c \in Courses : StoreMarkLessonCompleted(l, c, userId)
    \/ \E c \in Courses : GetCourseProgress(c)
    \/ \E t \in 1..MaxTasks, r \in ProgressResponses : GetCourseProgressReturn(t, r)

SpecProgress == Init /\ [][NextProgress]_vars

\* a browser whose tutor_enrollments key may hold JSON that is not a list
\* (written by other code of the page: the store itself only writes lists)
InitEnroll ==
    /\ enrollments = <<>>
    /\ courseProgress = <<>>
    /\ lessonProgress = <<>>
    /\ malformed \in BOOLEAN
    /\ globalSyncManager = TRUE
    /\ apiClient \in BOOLEAN
    /\ userId \in OptUserIds
    /\ isOnline \in BOOLEAN
    /\ syncQueue = <<>>
    /\ tasks = [t \in 1..MaxTasks |-> NoTask]
    /\ nextId = 0
    /\ last = Returned("init", TRUE)

\* enrollment through the coordinator, with the drains that replay it
NextEnroll ==
    \/ OnlineEvent
    \/ OfflineEvent
    \/ \E t \in 1..MaxTasks, o \in RemoteOutcomes : DrainResume(t, o)
    \/ \E c \in Courses : EnrollInFreeCourse(c)
    \/ \E t \in 1..MaxTasks, o \in RemoteOutcomes : EnrollReturn(t, o)

SpecEnroll == InitEnroll /\ [][NextEnroll]_vars

\* the drains alone: enrollments fill the queue, the "online" event and
\* syncToServer drain it
NextDrain ==
    \/ OnlineEvent
    \/ OfflineEvent
    \/ SyncToServer
    \/ \E t \in 1..MaxTasks, o \in RemoteOutcomes : DrainResume(t, o)
    \/ \E c \in Courses : EnrollInFreeCourse(c)
    \/ \E t \in 1..MaxTasks, o \in RemoteOutcomes : EnrollReturn(t, o)

\* every remote call a drain awaits settles: fetch resolves or rejects, and
\* the continuation of the await is then run
DrainFairness ==
    \A t \in 1..MaxTasks : WF_vars(\E o \in RemoteOutcomes : DrainResume(t, o))

SpecDrain == Init /\ [][NextDrain]_vars /\ DrainFairness

\* a page that has called initializeTutorSync(options), or has not: without
\* a registered coordinator there are no listeners and no queue
InitWrapper ==
    /\ enrollments = <<>>
    /\ courseProgress = <<>>
    /\ lessonProgress = <<>>
    /\ malformed = FALSE
    /\ globalSyncManager \in BOOLEAN
    /\ apiClient \in (IF globalSyncManager THEN BOOLEAN ELSE {FALSE})
    /\ userId \in (IF globalSyncManager THEN OptUserIds ELSE {NoUser})
    /\ isOnline \in (IF globalSyncManager THEN BOOLEAN ELSE {TRUE})
    /\ syncQueue = <<>>
    /\ tasks = [t \in 1..MaxTasks |-> NoTask]
    /\ nextId = 0
    /\ last = Returned("init", TRUE)

\* enrollment through the exported wrapper, callers of several user ids
NextWrapper ==
    \/ globalSyncManager /\ OnlineEvent
    \/ globalSyncManager /\ OfflineEvent
    \/ \E t \in 1..MaxTasks, o \in RemoteOutcomes : DrainResume(t, o)
    \/ \E c \in Courses, u \in CallerIds : EnrollInFreeCourseSync(c, u)
    \/ \E t \in 1..MaxTasks, o \in RemoteOutcomes : EnrollReturn(t, o)
    \/ \E c \in Courses, u \in CallerIds : StoreUnenroll(c, u)

SpecWrapper == InitWrapper /\ [][NextWrapper]_vars

\* no public method is suspended: the caller awaits each call before it
\* makes the next one
Quiet == \A t \in 1..MaxTasks : tasks[t].kind = "idle"

\* the remote progress responses of the boundary runs: a rejection, an
\* unsuccessful envelope, success without a body and success with one body
BoundaryResponses ==
    {r \in ProgressResponses :
        IsSome(r.data) =>
            /\ Get(r.data).completedLessons = Some(<<2>>)
            /\ Get(r.data).overallProgress = Some(40)}

\* the six public methods of a coordinator, called one after the other on a
\* coordinator whose connectivity stays as it was at construction
NextBoundary ==
    \/ Quiet /\ SyncToServer
    \/ \E t \in 1..MaxTasks, o \in RemoteOutcomes : DrainResume(t, o)
    \/ Quiet /\ \E c \in Courses : EnrollInFreeCourse(c)
    \/ \E t \in 1..MaxTasks, o \in RemoteOutcomes : EnrollReturn(t, o)
    \/ Quiet /\ \E l \in Lessons, c \in Courses : MarkLessonCompleted(l, c)
    \/ \E t \in 1..MaxTasks, o \in RemoteOutcomes : MarkReturn(t, o)
    \/ Quiet /\ \E c \in Courses : GetCourseProgress(c)
    \/ \E t \in 1..MaxTasks, r \in BoundaryResponses : GetCourseProgressReturn(t, r)
    \/ Quiet /\ \E c \in Courses : IsEnrolledInCourse(c)
    \/ \E t \in 1..MaxTasks, r \in EnrolledResponses : IsEnrolledReturn(t, r)
    \/ Quiet /\ SyncFromServer
    \/ \E t \in 1..MaxTasks, r \in ListResponses : SyncFromEnrollments(t, r)
    \/ \E t \in 1..MaxTasks, r \in ListResponses : SyncFromProgress(t, r)

SpecBoundary == Init /\ [][NextBoundary]_vars

\* ================================================================= claims

QueuedIds(queue) == {queue[i].id : i \in 1..Len(queue)}
Drains == {t \in 1..MaxTasks : tasks[t].kind = "drain"}

\* C1: with a client and a user id and connectivity offline,
\* enrollInFreeCourse(c) returns true, leaves c enrolled locally and appends
\* one closure to the retry queue; when the "online" event then finds that
\* closure alone in the queue, the drain empties the queue and invokes the
\* remote enrollInCourse of course c, the closure's first invocation (tries
\* goes from 0 to 1); when that call
\* succeeds the drain ends without another invocation and the queue is
\* still empty.
C1_OfflineEnrollThenDrain ==
    [][/\ \A c \in Courses :
            (EnrollInFreeCourse(c) /\ apiClient /\ userId # NoUser /\ ~isOnline)
            => /\ last' = Returned("enrollInFreeCourse", TRUE)
               /\ isEnrolledInCourse(enrollments', c, userId)
               /\ Len(syncQueue') = Len(syncQueue) + 1
               /\ syncQueue' = Append(syncQueue, NewEntry("enroll", c, 0, "deferred"))
               /\ tasks' = tasks
       /\ \A c \in Courses :
            (OnlineEvent /\ apiClient /\ userId # NoUser /\ Drains = {}
                /\ syncQueue = <<[op |-> "enroll", courseId |-> c, lessonId |-> 0,
                                  id |-> nextId, origin |-> "deferred", tries |-> 0]>>)
            => /\ syncQueue' = <<>>
               /\ \E t \in 1..MaxTasks :
                    /\ tasks'[t].kind = "drain"
                    /\ tasks'[t].cur = [op |-> "enroll", courseId |-> c, lessonId |-> 0,
                                        id |-> nextId, origin |-> "deferred", tries |-> 1]
                    /\ tasks'[t].rest = <<>>
                    /\ \A o \in 1..MaxTasks : o # t => tasks'[o] = tasks[o]
       /\ \A t \in 1..MaxTasks :
            (DrainResume(t, "ok") /\ tasks[t].rest = <<>> /\ tasks[t].cur.tries = 1
                /\ tasks[t].cur.origin = "deferred" /\ syncQueue = <<>>)
            => /\ syncQueue' = <<>>
               /\ tasks'[t] = NoTask
               /\ \A o \in 1..MaxTasks : tasks'[o].kind = "drain" => tasks'[o] = tasks[o]]_vars

\* the "online" event has started a drain that holds the closure of an offline
\* enrollment and has invoked it once: the course is enrolled locally, the
\* call returned true and the live queue is empty
C1_Witness ==
    /\ apiClient /\ userId # NoUser /\ isOnline
    /\ syncQueue = <<>>
    /\ last = Returned("enrollInFreeCourse", TRUE)
    /\ \E t \in 1..MaxTasks, c \in Courses :
          /\ tasks[t].kind = "drain"
          /\ tasks[t].caller = "event"
          /\ tasks[t].cur = [op |-> "enroll", courseId |-> c, lessonId |-> 0,
                             id |-> 1, origin |-> "deferred", tries |-> 1]
          /\ tasks[t].rest = <<>>
          /\ isEnrolledInCourse(enrollments, c, userId)

\* C2: a closure leaves the retry queue only through a replay whose remote
\* call succeeded: a replay whose remote call throws or returns an envelope
\* with success = false leaves the closure in the queue.
C2_FailedReplayStaysQueued ==
    [][\A t \in 1..MaxTasks, o \in {"fail", "throw"} :
        DrainResume(t, o) => tasks[t].cur.id \in QueuedIds(syncQueue')]_vars

\* the closures of drain t that threw, the one settling now included
FailedNow(t, o) ==
    IF o = "throw" THEN Append(tasks[t].failed, tasks[t].cur.id) ELSE tasks[t].failed

\* C3 as stated: every closure whose remote call threw during a drain is in
\* the retry queue when that drain finishes.
C3_FailedPresentAtFinish ==
    [][\A t \in 1..MaxTasks, o \in RemoteOutcomes :
        (DrainResume(t, o) /\ tasks[t].rest = <<>>)
        => \A i \in 1..Len(FailedNow(t, o)) :
              FailedNow(t, o)[i] \in QueuedIds(syncQueue')]_vars

Copies(queue, id) == Cardinality({i \in 1..Len(queue) : queue[i].id = id})

\* C3 amended: a replay that throws appends its closure to the live queue,
\* one more copy and nothing removed; and every closure that threw during a
\* drain is in the queue when the drain finishes, unless another drain
\* started while it ran.
C3_FailedRequeued ==
    [][\A t \in 1..MaxTasks, o \in RemoteOutcomes :
        DrainResume(t, o)
        => /\ o = "throw" =>
                /\ syncQueue' = Append(syncQueue, tasks[t].cur)
                /\ Copies(syncQueue', tasks[t].cur.id) = Copies(syncQueue, tasks[t].cur.id) + 1
           /\ \A id \in QueuedIds(syncQueue) : Copies(syncQueue', id) >= Copies(syncQueue, id)
           /\ (tasks[t].rest = <<>> /\ tasks[t].solo)
                => \A i \in 1..Len(FailedNow(t, o)) :
                      FailedNow(t, o)[i] \in QueuedIds(syncQueue')]_vars

\* a closure that has been replayed twice is queued again while no drain runs
C3_Witness ==
    /\ Drains = {}
    /\ \E i \in 1..Len(syncQueue) : syncQueue[i].tries = 2

\* C4 as stated: the merged record's completedLessons is the remote list when
\* the remote provides a non-empty one, and the local list otherwise.
C4_NonEmptyRemoteListWins ==
    [][\A t \in 1..MaxTasks, r \in ProgressResponses :
        (r.outcome = "ok" /\ IsSome(r.data) /\ IsSome(tasks[t].local)
            /\ tasks[t].kind = "getCourseProgress" /\ tasks'[t].kind = "idle"
            /\ GetCourseProgressReturn(t, r))
        => LET R == Get(r.data).completedLessons
               L == Get(tasks[t].local).completedLessons
           IN  Get(last'.ret).completedLessons =
                   IF IsSome(R) /\ Get(R) # <<>> THEN Get(R) ELSE L]_vars

\* C4 amended: the merged record's completedLessons is the remote list
\* whenever the remote provides one, the empty list included, and the local
\* list only when the remote omits the field.
C4_RemoteListWins ==
    [][\A t \in 1..MaxTasks, r \in ProgressResponses :
        (tasks[t].kind = "getCourseProgress" /\ tasks'[t].kind = "idle"
            /\ last'.remote = "ok" /\ IsSome(tasks[t].local)
            /\ r.outcome = "ok" /\ IsSome(r.data)
            /\ GetCourseProgressReturn(t, r))
        => LET R == Get(r.data).completedLessons
               L == Get(tasks[t].local).completedLessons
           IN  /\ last'.op = "getCourseProgress"
               /\ IsSome(last'.ret)
               /\ Get(last'.ret).completedLessons = IF IsSome(R) THEN Get(R) ELSE L]_vars

\* a merge has returned an empty list over a local record that held lessons,
\* and another one the local list where the remote gave none
C4_Witness ==
    /\ last.op = "getCourseProgress"
    /\ IsSome(last.ret) /\ IsSome(last.local)
    /\ Get(last.local).completedLessons # <<>>
    /\ Get(last.ret).completedLessons = <<>>

\* C5: every stored CourseProgress record has 0 <= overallProgress <= 100.
C5_ProgressBound ==
    \A i \in 1..Len(courseProgress) :
        courseProgress[i].overallProgress >= 0 /\ courseProgress[i].overallProgress <= 100


TotalCompleted(p) ==
    Len(p.completedLessons) + Len(p.completedQuizzes) + Len(p.completedAssignments)

\* C6: marking lesson l of course c completed when the store has no
\* CourseProgress for c leaves a CourseProgress for c whose completedLessons
\* is exactly [l] and whose overallProgress is above 0, and
\* isLessonCompleted(l, c) is true.
C6_MarkWithoutRecordCreatesProgress ==
    [][\A l \in Lessons, c \in Courses, u \in OptUserIds :
        (StoreMarkLessonCompleted(l, c, u)
            /\ ~IsSome(getCourseProgress(courseProgress, c, u)))
        => /\ IsSome(getCourseProgress(courseProgress', c, u))
           /\ Get(getCourseProgress(courseProgress', c, u)).completedLessons = <<l>>
           /\ Get(getCourseProgress(courseProgress', c, u)).overallProgress > 0
           /\ isLessonCompleted(lessonProgress', l, c, u)]_vars

\* C7: after markLessonCompleted(l, c, u) on an existing CourseProgress the
\* stored overallProgress is min(100, round(100 * n / max(n, 10))), n being
\* the number of completed lessons, quizzes and assignments of the record
\* after the call.
C7_ProgressCountsTheNewLesson ==
    [][\A l \in Lessons, c \in Courses, u \in OptUserIds :
        (StoreMarkLessonCompleted(l, c, u)
            /\ IsSome(getCourseProgress(courseProgress, c, u)))
        => LET p == Get(getCourseProgress(courseProgress', c, u))
               n == TotalCompleted(p)
           IN  p.overallProgress = Min(100, RoundPercent(n, Max(n, MinimumEstimate)))]_vars

CountPair(enr, c, u) ==
    Cardinality({i \in 1..Len(enr) : enr[i].courseId = c /\ enr[i].userId = u})

\* C8: the store never holds two Enrollment records of one (courseId, userId)
\* pair, and from any state two calls of enroll(c, u) both return true and
\* leave c enrolled for u without a duplicate: exactly one record of the pair
\* when u is given, and no record added by the second call in any case.
C8_EnrollmentIdempotent ==
    /\ \A c \in Courses, u \in OptUserIds : CountPair(enrollments, c, u) <= 1
    /\ \A c \in Courses, u \in OptUserIds :
        LET first == enrollInFreeCourse(enrollments, courseProgress, c, u)
            second == enrollInFreeCourse(first.enrollments, first.courseProgress, c, u)
        IN  /\ first.result = TRUE
            /\ second.result = TRUE
            /\ second.enrollments = first.enrollments
            /\ isEnrolledInCourse(second.enrollments, c, u)
            /\ CountPair(second.enrollments, c, u) <= 1
            /\ (u # NoUser => CountPair(second.enrollments, c, u) = 1)

\* a course enrolled device-scoped and then for a user: each further enroll
\* of either pair finds its record
C8_Witness ==
    /\ Len(enrollments) = 2
    /\ enrollments[1].courseId = enrollments[2].courseId
    /\ enrollments[1].userId = NoUser
    /\ enrollments[2].userId # NoUser

NonClearingUpdate ==
    \E l \in Lessons, c \in Courses, u \in OptUserIds, p \in LessonPatches :
        /\ p.isCompleted # Some(FALSE)
        /\ StoreUpdateLessonProgress(l, c, p, u)

C10_CompletedMeansFull ==
    \A i \in 1..Len(lessonProgress) :
        lessonProgress[i].isCompleted
        => lessonProgress[i].progressPercentage = 100 /\ lessonProgress[i].completedAt

C12_RemoteFailureReturnsLocal ==
    [][/\ \A c \in Courses :
            (RemoteCapable /\ GetCourseProgress(c))
            => \E t \in 1..MaxTasks :
                  /\ tasks[t].kind = "idle"
                  /\ tasks'[t].kind = "getCourseProgress"
                  /\ tasks'[t].local = getCourseProgress(courseProgress, c, userId)
       /\ \A t \in 1..MaxTasks, r \in ProgressResponses :
            (/\ ~(r.outcome = "ok" /\ IsSome(r.data))
             /\ tasks[t].kind = "getCourseProgress" /\ tasks'[t].kind = "idle"
             /\ GetCourseProgressReturn(t, r))
            => /\ last'.op = "getCourseProgress"
               /\ ~last'.raised
               /\ last'.ret = tasks[t].local
               /\ UNCHANGED storeVars]_vars

\* a call whose remote request failed has returned the record it had read,
\* which the store no longer holds: the store changed while it was suspended
C12_Witness ==
    /\ last.op = "getCourseProgress"
    /\ last.remote = "failed"
    /\ IsSome(last.ret)
    /\ last.ret = last.local
    /\ \E c \in Courses : getCourseProgress(courseProgress, c, userId) # last.ret

\* C13: enrollInFreeCourse(c) returns true whenever its local step resolved
\* to true, whatever the connectivity and however the remote call settles;
\* when the local step resolves to false it returns false at once, with no
\* remote call started and no closure queued.
C13_ReturnsLocalResult ==
    [][/\ \A c \in Courses :
            EnrollInFreeCourse(c)
            => LET localSuccess ==
                       TryEnroll(malformed, enrollments, courseProgress, c, userId).result
               IN  IF localSuccess
                   THEN \/ last' = Returned("enrollInFreeCourse", TRUE)
                        \/ /\ RemoteCapable
                           /\ last' = last
                           /\ \E t \in 1..MaxTasks :
                                tasks[t].kind = "idle" /\ tasks'[t].kind = "enroll"
                   ELSE /\ last' = Returned("enrollInFreeCourse", FALSE)
                        /\ tasks' = tasks
                        /\ syncQueue' = syncQueue
                        /\ UNCHANGED storeVars
       /\ \A t \in 1..MaxTasks, o \in RemoteOutcomes :
            EnrollReturn(t, o)
            => /\ last'.op = "enrollInFreeCourse"
               /\ last'.ret = TRUE
               /\ ~last'.raised]_vars

\* a coordinator that is online with a client and a user id has returned
\* false from enrollInFreeCourse: nothing is enrolled, suspended or queued
C13_Witness ==
    /\ malformed /\ apiClient /\ isOnline /\ userId # NoUser
    /\ last = Returned("enrollInFreeCourse", FALSE)
    /\ enrollments = <<>>
    /\ syncQueue = <<>>
    /\ \A t \in 1..MaxTasks : tasks[t] = NoTask

\* C14: a coordinator without client or without user id skips the remote step
\* of enrollInFreeCourse and markLessonCompleted and queues nothing: the
\* retry queue is as long after the call as before.
C14_LocalOnlyQueuesNothing ==
    [][(~apiClient \/ userId = NoUser)
        => /\ \A c \in Courses :
                EnrollInFreeCourse(c) => Len(syncQueue') = Len(syncQueue)
           /\ \A l \in Lessons, c \in Courses :
                MarkLessonCompleted(l, c) => Len(syncQueue') = Len(syncQueue)]_vars

\* C15: the count syncToServer reports is the number of closures its drain
\* processed, the length of the retry queue when the call started.
C15_ReportsEntriesProcessed ==
    [][/\ SyncToServer /\ RemoteCapable /\ syncQueue = <<>>
            => last'.ret.synced.enrollments = 0
       /\ \A t \in 1..MaxTasks, o \in RemoteOutcomes :
            (tasks[t].kind = "drain" /\ tasks[t].caller = "syncToServer"
                /\ tasks[t].rest = <<>> /\ DrainResume(t, o))
            => /\ last'.op = "syncToServer"
               /\ last'.ret.synced.enrollments = tasks[t].size]_vars

\* the closure a call of the given kind creates
SameWrite(e, op, c, l) == e.op = op /\ e.courseId = c /\ e.lessonId = l

\* C20: a call of enrollInFreeCourse (whose local step succeeded) or of
\* markLessonCompleted appends exactly one closure when the coordinator is
\* offline or not remote-capable, nothing while its remote call is pending,
\* exactly one closure when that call rejects or returns an unsuccessful
\* envelope, and nothing when it succeeds.
C20_OneEntryPerFailedOrDeferredWrite ==
    [][/\ \A c \in Courses :
            EnrollInFreeCourse(c)
            => IF RemoteCapable
               THEN syncQueue' = syncQueue
               ELSE /\ Len(syncQueue') = Len(syncQueue) + 1
                    /\ SubSeq(syncQueue', 1, Len(syncQueue)) = syncQueue
                    /\ SameWrite(syncQueue'[Len(syncQueue')], "enroll", c, 0)
       /\ \A l \in Lessons, c \in Courses :
            MarkLessonCompleted(l, c)
            => IF RemoteCapable
               THEN syncQueue' = syncQueue
               ELSE /\ Len(syncQueue') = Len(syncQueue) + 1
                    /\ SubSeq(syncQueue', 1, Len(syncQueue)) = syncQueue
                    /\ SameWrite(syncQueue'[Len(syncQueue')], "mark", c, l)
       /\ \A t \in 1..MaxTasks, o \in RemoteOutcomes :
            (EnrollReturn(t, o) \/ MarkReturn(t, o))
            => IF o = "ok"
               THEN syncQueue' = syncQueue
               ELSE /\ Len(syncQueue') = Len(syncQueue) + 1
                    /\ SubSeq(syncQueue', 1, Len(syncQueue)) = syncQueue
                    /\ SameWrite(syncQueue'[Len(syncQueue')],
                                 IF tasks[t].kind = "enroll" THEN "enroll" ELSE "mark",
                                 tasks[t].courseId, tasks[t].lessonId)]_vars

\* the queue holds two closures of the same write: one queued after a failed
\* remote call, one queued while the coordinator was not remote-capable
C20_Witness ==
    /\ Len(syncQueue) = 2
    /\ SameWrite(syncQueue[2], syncQueue[1].op, syncQueue[1].courseId,
                 syncQueue[1].lessonId)
    /\ {syncQueue[1].origin, syncQueue[2].origin} = {"failed", "deferred"}

\* C16: on a coordinator that is offline, or has no client, or has no user
\* id, syncToServer and syncFromServer return success = false with an error
\* message and all counts 0; they do not reject, start no remote call and
\* leave the retry queue and the local store as they are.
C16_SyncFailsClosed ==
    [][(~isOnline \/ ~apiClient \/ userId = NoUser)
        => /\ SyncToServer
                => /\ last' = Returned("syncToServer", SyncReport(FALSE, 0, 0))
                   /\ last'.ret.error /\ ~last'.raised
                   /\ tasks' = tasks /\ syncQueue' = syncQueue
                   /\ UNCHANGED storeVars
           /\ SyncFromServer
                => /\ last' = Returned("syncFromServer", SyncReport(FALSE, 0, 0))
                   /\ last'.ret.error /\ ~last'.raised
                   /\ tasks' = tasks /\ syncQueue' = syncQueue
                   /\ UNCHANGED storeVars]_vars

\* an offline coordinator with client and user id, two closures queued and a
\* course enrolled, has returned the failure from syncToServer
C16_Witness ==
    /\ ~isOnline /\ apiClient /\ userId # NoUser
    /\ last = Returned("syncToServer", SyncReport(FALSE, 0, 0))
    /\ Len(syncQueue) = 2
    /\ enrollments # <<>>
    /\ \A t \in 1..MaxTasks : tasks[t] = NoTask

\* C17: on a remote-capable coordinator isEnrolledInCourse(c) returns the
\* remote value whenever the remote check succeeds, and then, if the remote
\* says enrolled and the local check of the call said not enrolled, c is
\* enrolled locally when the call returns; when the remote check fails it
\* returns the local result and leaves the store unchanged.
C17_RemoteEnrollmentWins ==
    [][/\ \A c \in Courses :
            (RemoteCapable /\ IsEnrolledInCourse(c))
            => \E t \in 1..MaxTasks :
                  /\ tasks[t].kind = "idle"
                  /\ tasks'[t].kind = "isEnrolledInCourse"
                  /\ tasks'[t].local = Some(isEnrolledInCourse(enrollments, c, userId))
       /\ \A t \in 1..MaxTasks, r \in EnrolledResponses :
            IsEnrolledReturn(t, r)
            => /\ last'.op = "isEnrolledInCourse"
               /\ ~last'.raised
               /\ IF r.outcome = "ok"
                  THEN /\ last'.ret = r.data
                       /\ (r.data /\ ~Get(tasks[t].local))
                            => isEnrolledInCourse(enrollments', tasks[t].courseId, userId)
                  ELSE /\ last'.ret = Get(tasks[t].local)
                       /\ UNCHANGED storeVars]_vars

\* a call has returned true where the local check had said false, and the
\* course is enrolled locally with its progress record
C17_Witness ==
    /\ last.op = "isEnrolledInCourse"
    /\ last.remote = "ok"
    /\ last.ret = TRUE
    /\ last.local = Some(FALSE)
    /\ \E c \in Courses :
          /\ isEnrolledInCourse(enrollments, c, userId)
          /\ IsSome(getCourseProgress(courseProgress, c, userId))

\* C18: the merged record getCourseProgress(c) returns after a successful
\* remote call has been persisted: the store then holds a record for
\* (c, userId) with the same completedLessons, completedQuizzes,
\* completedAssignments and overallProgress, whether or not it held one
\* before the call.
C18_MergedRecordPersisted ==
    [][\A t \in 1..MaxTasks, r \in ProgressResponses :
        (tasks[t].kind = "getCourseProgress" /\ tasks'[t].kind = "idle"
            /\ last'.remote = "ok" /\ r.outcome = "ok" /\ IsSome(r.data)
            /\ GetCourseProgressReturn(t, r))
        => LET stored == getCourseProgress(courseProgress', tasks[t].courseId, userId)
               merged == Get(last'.ret)
           IN  /\ IsSome(stored)
               /\ Get(stored).completedLessons = merged.completedLessons
               /\ Get(stored).completedQuizzes = merged.completedQuizzes
               /\ Get(stored).completedAssignments = merged.completedAssignments
               /\ Get(stored).overallProgress = merged.overallProgress]_vars

\* C19: while no unenroll or reset is made, a course the coordinator's user
\* is enrolled in stays enrolled, and a lesson the user has marked completed
\* stays in the completedLessons of the course's local record, through every
\* coordinator operation and whatever the remote returns.
C19_OwnActionsStayLocal ==
    [][\A c \in Courses :
        /\ isEnrolledInCourse(enrollments, c, userId)
            => isEnrolledInCourse(enrollments', c, userId)
        /\ \A l \in Lessons :
            (/\ isLessonCompleted(lessonProgress, l, c, userId)
             /\ IsSome(getCourseProgress(courseProgress, c, userId))
             /\ Includes(Get(getCourseProgress(courseProgress, c, userId)).completedLessons, l))
            => /\ IsSome(getCourseProgress(courseProgress', c, userId))
               /\ Includes(Get(getCourseProgress(courseProgress', c, userId)).completedLessons,
                           l)]_vars

\* C21: a drain captures the live queue as it is when the drain starts and
\* invokes the captured closures one by one in queue order, each once; it
\* goes on to the next captured closure however the invoked one settled, a
\* closure that threw is appended to the tail of the live queue, and the
\* drain ends after the last captured closure: every drain terminates, even
\* if every attempt fails.
C21_DrainReplaysSnapshotInOrder ==
    /\ [][/\ \A t \in 1..MaxTasks :
                (tasks[t].kind # "drain" /\ tasks'[t].kind = "drain")
                => /\ syncQueue # <<>>
                   /\ tasks'[t].cur = Invoked(Head(syncQueue))
                   /\ tasks'[t].rest = Tail(syncQueue)
                   /\ tasks'[t].size = Len(syncQueue)
                   /\ tasks'[t].failed = <<>>
          /\ \A t \in 1..MaxTasks, o \in RemoteOutcomes :
                (tasks[t].kind = "drain" /\ DrainResume(t, o))
                => /\ IF tasks[t].rest # <<>>
                      THEN /\ tasks'[t].kind = "drain"
                           /\ tasks'[t].cur = Invoked(Head(tasks[t].rest))
                           /\ tasks'[t].rest = Tail(tasks[t].rest)
                           /\ tasks'[t].size = tasks[t].size
                      ELSE tasks'[t].kind = "idle"
                   /\ syncQueue' = IF o = "throw"
                                   THEN Append(syncQueue, tasks[t].cur)
                                   ELSE syncQueue
          /\ \A t \in 1..MaxTasks :
                (tasks[t].kind = "drain" /\ tasks'[t].kind = "drain")
                => Len(tasks'[t].rest) <= Len(tasks[t].rest)]_vars
    /\ \A t \in 1..MaxTasks : (tasks[t].kind = "drain") ~> (tasks[t].kind = "idle")

\* a drain that captured two closures has seen the first one throw: that
\* closure is at the tail of the live queue and the second one is invoked
C21_Witness ==
    \E t \in 1..MaxTasks :
        /\ tasks[t].kind = "drain"
        /\ tasks[t].size = 2
        /\ tasks[t].failed = <<1>>
        /\ tasks[t].cur.id = 2
        /\ tasks[t].rest = <<>>
        /\ syncQueue # <<>>
        /\ syncQueue[Len(syncQueue)].id = 1

\* C22: when getCourseProgress(c) obtains a successful remote record, the
\* merged overallProgress is the remote overallProgress whenever the remote
\* record has the field, the value 0 included, and the local value (0 without
\* a local record) only when the remote record omits it.
C22_RemoteOverallProgressWins ==
    [][\A t \in 1..MaxTasks, r \in ProgressResponses :
        (tasks[t].kind = "getCourseProgress" /\ tasks'[t].kind = "idle"
            /\ last'.remote = "ok" /\ r.outcome = "ok" /\ IsSome(r.data)
            /\ GetCourseProgressReturn(t, r))
        => Get(last'.ret).overallProgress =
              IF IsSome(Get(r.data).overallProgress)
              THEN Get(Get(r.data).overallProgress)
              ELSE IF IsSome(tasks[t].local) THEN Get(tasks[t].local).overallProgress
                   ELSE 0]_vars

\* C23: while the enrollment collection of the persistence surface holds
\* corrupt data, the store's enrollment read returns the default (not
\* enrolled) without raising, and enroll and unenroll leave the persisted
\* state as it is.
C23_StoreDegradesSilently ==
    [][malformed
        => \A c \in Courses, u \in OptUserIds :
            /\ StoreIsEnrolled(c, u)
                => /\ ~last'.raised
                   /\ last'.ret = FALSE
            /\ StoreEnroll(c, u) => UNCHANGED storeVars
            /\ StoreUnenroll(c, u) => UNCHANGED storeVars]_vars

Count(s, r) == Cardinality({i \in 1..Len(s) : s[i] = r})

\* C25: unenroll(c, u) returns true whether or not anything matched; after
\* it no Enrollment and no CourseProgress record of course c and user u (of
\* any user when u is absent) is left, every other Enrollment and
\* CourseProgress record is kept, in its order, and the LessonProgress
\* records are unchanged.
C25_UnenrollRemovesExactlyTheMatch ==
    [][\A c \in CatalogCourses, u \in OptUserIds :
        StoreUnenroll(c, u)
        => LET hit(r) == r.courseId = c /\ (u = NoUser \/ r.userId = u)
               kept(old, new) ==
                    /\ \A i \in 1..Len(new) : ~hit(new[i])
                    /\ \A i \in 1..Len(old) :
                          ~hit(old[i]) => Count(new, old[i]) = Count(old, old[i])
                    /\ Len(new) = Cardinality({i \in 1..Len(old) : ~hit(old[i])})
                    /\ \A i, j \in 1..Len(new) :
                          i < j => \E a, b \in 1..Len(old) :
                                      a < b /\ old[a] = new[i] /\ old[b] = new[j]
           IN  /\ unenrollFromCourse(enrollments, courseProgress, c, u).result = TRUE
               /\ kept(enrollments, enrollments')
               /\ kept(courseProgress, courseProgress')
               /\ lessonProgress' = lessonProgress]_vars

\* user 1 is out of course 1: the device-scoped enrollment of course 1 and
\* user 1's enrollment in course 2 stand with their progress records, and the
\* lesson user 1 completed in course 1 is still on record
C25_Witness ==
    /\ ~isEnrolledInCourse(enrollments, 1, 1)
    /\ isEnrolledInCourse(enrollments, 1, NoUser)
    /\ isEnrolledInCourse(enrollments, 2, 1)
    /\ Len(courseProgress) = 2
    /\ \E i \in 1..2 : courseProgress[i].courseId = 2 /\ courseProgress[i].userId = 1
    /\ \E i \in 1..2 : courseProgress[i].courseId = 1 /\ courseProgress[i].userId = NoUser
    /\ isLessonCompleted(lessonProgress, 1, 1, 1)

\* C26: the store's isEnrolled(c, u) is true iff some stored Enrollment has
\* courseId = c and, when u is given, userId = u: a query without user id is
\* answered by the enrollment of any user, a query with a user id only by an
\* enrollment recorded with that user id, not by a device-scoped one.
C26_EnrollmentMatching ==
    [][\A c \in CatalogCourses, u \in OptUserIds :
        StoreIsEnrolled(c, u)
        => /\ ~last'.raised
           /\ last'.ret = (\E i \in 1..Len(enrollments) :
                              /\ enrollments[i].courseId = c
                              /\ (u # NoUser => enrollments[i].userId = u))
           /\ (u = NoUser /\ (\E i \in 1..Len(enrollments) : enrollments[i].courseId = c))
                => last'.ret = TRUE
           /\ (u # NoUser /\ (\A i \in 1..Len(enrollments) :
                                 enrollments[i].courseId = c
                                 => enrollments[i].userId = NoUser))
                => last'.ret = FALSE]_vars

\* user 1 has asked about course 1, which is enrolled device-scoped only, and
\* has been told no
C26_Witness ==
    /\ last = Observed("isEnrolled", FALSE, Some([courseId |-> 1, userId |-> 1]))
    /\ enrollments = <<[courseId |-> 1, userId |-> NoUser]>>

\* C27: on a coordinator that is online with client and user id,
\* syncFromServer fetches the remote enrollment list and then the remote
\* progress list, and returns success with synced.enrollments and
\* synced.progress the lengths of the lists, 0 for a list whose fetch came
\* back unsuccessful or without a list; the local store and the retry queue
\* are the same after every step of the call.  (A fetch that rejects, which
\* the client's own requests never do, ends the call in its catch block with
\* success = false and all counts 0, store and queue unchanged as well.)
C27_SyncFromServerCountsOnly ==
    [][/\ (RemoteCapable /\ SyncFromServer)
            => /\ \E t \in 1..MaxTasks :
                    /\ tasks[t].kind = "idle"
                    /\ tasks'[t].kind = "syncFromServer:enrollments"
               /\ syncQueue' = syncQueue
               /\ UNCHANGED storeVars
       /\ \A t \in 1..MaxTasks, r \in ListResponses :
            SyncFromEnrollments(t, r)
            => /\ syncQueue' = syncQueue
               /\ UNCHANGED storeVars
               /\ IF r.outcome = "throw"
                  THEN last' = [Returned("syncFromServer", SyncReport(FALSE, 0, 0))
                                   EXCEPT !.remote = "failed"]
                  ELSE /\ tasks'[t].kind = "syncFromServer:progress"
                       /\ tasks'[t].synced =
                            IF r.outcome = "ok" /\ IsSome(r.data) THEN Get(r.data) ELSE 0
       /\ \A t \in 1..MaxTasks, r \in ListResponses :
            SyncFromProgress(t, r)
            => /\ syncQueue' = syncQueue
               /\ UNCHANGED storeVars
               /\ last'.op = "syncFromServer" /\ ~last'.raised
               /\ IF r.outcome = "throw"
                  THEN last'.ret = SyncReport(FALSE, 0, 0)
                  ELSE /\ last'.ret.success /\ ~last'.ret.error
                       /\ last'.ret.synced.enrollments = tasks[t].synced
                       /\ last'.ret.synced.progress =
                            IF r.outcome = "ok" /\ IsSome(r.data) THEN Get(r.data) ELSE 0
                       /\ last'.ret.synced.lessons = 0]_vars

\* a call has returned the length of the enrollment list it fetched and 0
\* for the progress list, whose fetch was unsuccessful, on a coordinator with
\* an enrolled course and a queued closure
C27_Witness ==
    /\ last.op = "syncFromServer"
    /\ last.remote = "failed"
    /\ last.ret = SyncReport(TRUE, 2, 0)
    /\ enrollments # <<>>
    /\ syncQueue # <<>>
    /\ Quiet

\* the closures drain t still holds: the one it awaits and the ones it has
\* not invoked yet
Held(t) == IF tasks[t].kind = "drain" THEN <<tasks[t].cur>> \o tasks[t].rest ELSE <<>>

\* the number of places closure id is in: the live queue and the drains
Places(id) ==
    Copies(syncQueue, id)
    + Cardinality({t \in 1..MaxTasks : Copies(Held(t), id) > 0})

C29_RemoteOnlyWhenCapable ==
    [][\A t \in 1..MaxTasks :
        (/\ tasks'[t].kind # "idle"
         /\ \/ tasks[t].kind = "idle"
            \/ tasks[t].kind = "drain" /\ tasks'[t].kind = "drain"
                  /\ tasks'[t].cur.id # tasks[t].cur.id)
        => isOnline' /\ apiClient' /\ userId' # NoUser]_vars

\* C30: the exported wrappers act for the user id their caller passes: when
\* enrollInFreeCourseSync(c, u) has gone through its local step, on which its
\* result true rests, the store's isEnrolled(c, u) is true, with or without a
\* registered coordinator and whatever that coordinator's user id.
C30_WrapperUsesCallersUser ==
    [][\A c \in Courses, u \in CallerIds :
        (/\ EnrollInFreeCourseSync(c, u)
         /\ \/ tasks' # tasks
            \/ last'.op = "enrollInFreeCourse" /\ last'.ret = TRUE)
        => isEnrolledInCourse(enrollments', c, u)]_vars

====
